---- MODULE Spec2Model ----
(***************************************************************************)
(* Model of Miditool: the per-route input callback of receive_data         *)
(* (src/src/main.rs), the message decoders (main.rs get_midi_message,      *)
(* midi.rs MidiMessage::parse), the event presenter Display                *)
(* (src/src/display.rs) and the ring-buffer averager Avg (src/src/avg.rs). *)
(*                                                                         *)
(* Specifications:                                                         *)
(*   Spec        - the configured routes, their callbacks interleaved;     *)
(*   DisplaySpec - one Display fed a stream of timestamped messages;       *)
(*   ParseSpec   - MidiMessage::parse applied to messages of 1 to 3 bytes; *)
(*   AvgSpec     - one Avg of a small capacity fed a sequence of values.   *)
(*                                                                         *)
(* Floating point: BPM values are fixed point, in 1/1000 BPM (MilliBpm);   *)
(* the value Display keeps and prints is in 1/10 BPM.                      *)
(***************************************************************************)
EXTENDS Integers, Sequences, FiniteSets, TLC

(***************************************************************************)
(* Bounds of the model.                                                    *)
(***************************************************************************)
\* callbacks delivered in one run of Spec
MaxMsgs == 2
\* TimingClock pulses delivered in one run of DisplaySpec
MaxPulses == 100
\* other messages are interleaved up to this pulse of the stream
MixedPulses == 2
\* add_value calls in one run of AvgSpec
MaxAdds == 7

(***************************************************************************)
(* Bit operations on unsigned integers.                                    *)
(***************************************************************************)
RECURSIVE BitOr(_, _)
BitOr(a, b) ==
    IF a = 0 THEN b
    ELSE IF b = 0 THEN a
    ELSE (IF a % 2 = 1 \/ b % 2 = 1 THEN 1 ELSE 0) + 2 * BitOr(a \div 2, b \div 2)

\* x & 0xF0 and x & 0x0F on a byte
HighNibble(x) == (x \div 16) * 16
LowNibble(x) == x % 16

\* u8 subtraction in a build without overflow checks
WrapSubU8(a, b) == (a - b + 256) % 256

(***************************************************************************)
(* Inputs.                                                                 *)
(***************************************************************************)
Routes == {1, 2}

\* std::usize::MAX, "no port": only compared for equality and order
NoPort == 99

\* Messages a device sends: NoteOn ch 1 key 64, NoteOn ch 2 key 5, NoteOn ch 2
\* key 64, ProgramChg ch 2 (two bytes), MIDI time code quarter frame (0xF1,
\* two bytes), SongPosition (0xF2), TimingClock (0xF8, one byte).
RouteMessages ==
    {<<144, 64, 5>>, <<145, 5, 64>>, <<145, 64, 5>>, <<193, 5>>,
     <<241, 5>>, <<242, 5, 64>>, <<248>>}

\* struct Config. The rows of a route table: the first route reads port 0.
Config(ip, ic, op, oc) ==
    [in_port |-> ip, in_channel |-> ic, out_port |-> op, out_channel |-> oc]

FirstRouteConfigs ==
    {Config(0, 0, 0, 2), Config(0, 2, 0, 0), Config(0, 0, 0, 16),
     Config(0, 2, 0, 2), Config(0, 2, NoPort, 0), Config(0, 0, 0, 0)}

\* the second route demultiplexes the same input port
SecondRouteConfigs ==
    {Config(0, 2, 1, 16)}

(***************************************************************************)
(* main.rs: decoding and printing of the monitor line.                     *)
(***************************************************************************)
\* the Pitchbend branch shifting the second data byte by 8 bits
PitchOfShift8(param, value) == BitOr(param, value * 256) - 8192

\* i16 arithmetic of the Pitchbend branch
PitchOf(param, value) == BitOr(param, value * 128) - 8192

\* get_midi_message: message has at least 2 bytes here. "panic" stands for
\* the panic!() of the last match arm.
get_midi_message(message) ==
    LET channel == LowNibble(message[1])
        param == message[2]
        value == IF Len(message) > 2 THEN message[3] ELSE 0
        hi == HighNibble(message[1])
    IN  CASE hi = 144 -> [kind |-> "NoteOn", channel |-> channel, a |-> param, b |-> value]
          [] hi = 128 -> [kind |-> "NoteOff", channel |-> channel, a |-> param, b |-> value]
          [] hi = 160 -> [kind |-> "KeyAT", channel |-> channel, a |-> param, b |-> value]
          [] hi = 176 -> [kind |-> "ControlChg", channel |-> channel, a |-> param, b |-> value]
          [] hi = 192 -> [kind |-> "ProgramChg", channel |-> channel, a |-> param, b |-> 0]
          [] hi = 208 -> [kind |-> "ChannelAT", channel |-> channel, a |-> param, b |-> 0]
          [] hi = 224 -> [kind |-> "Pitchbend", channel |-> channel,
                          a |-> PitchOf(param, value), b |-> 0]
          [] OTHER -> [kind |-> "panic", channel |-> 0, a |-> 0, b |-> 0]

\* show_message (main.rs): what it prints, and whether it panicked. The
\* prefix "<timestamp> Port <in_port> " is printed before the decoding.
show_message(in_port, message) ==
    LET m == get_midi_message(message)
    IN  IF m.kind = "panic"
        THEN [stdout |-> <<[port |-> in_port, kind |-> "prefix only", channel |-> 0,
                            a |-> 0, b |-> 0]>>,
              panicked |-> TRUE]
        ELSE [stdout |-> <<[port |-> in_port, kind |-> m.kind, channel |-> m.channel + 1,
                            a |-> m.a, b |-> m.b]>>,
              panicked |-> FALSE]

(***************************************************************************)
(* main.rs: the log line of the record branch, as characters.              *)
(***************************************************************************)
HexDigits == <<"0", "1", "2", "3", "4", "5", "6", "7",
               "8", "9", "a", "b", "c", "d", "e", "f">>

\* {:02x}
Hex02(x) == <<HexDigits[(x \div 16) + 1], HexDigits[(x % 16) + 1]>>

FormatLine(message) ==
    IF Len(message) = 3
    THEN Hex02(message[1]) \o <<" ">> \o Hex02(message[2]) \o <<" ">>
         \o Hex02(message[3]) \o <<"\n">>
    ELSE IF Len(message) = 2
    THEN Hex02(message[1]) \o <<" ">> \o Hex02(message[2]) \o <<"\n">>
    ELSE <<"\n">>

\* write(2) of data at offset pos of a file holding content
WriteAt(content, pos, data) ==
    SubSeq(content, 1, pos) \o data
    \o SubSeq(content, pos + Len(data) + 1, Len(content))

(***************************************************************************)
(* main.rs: the input callback of one route, as a function of the route's  *)
(* configuration, its captured message_out, the message and the outcomes   *)
(* of the environment (send and write succeed or fail; the build checks    *)
(* integer overflow or wraps).                                             *)
(***************************************************************************)
do_forward(config) == config.out_port < NoPort

\* the channel filter comparing with the 1-based channel number
NotListeningOneBased(in_channel, message) ==
    in_channel > 0 /\ LowNibble(message[1]) # in_channel

\* the channel filter: TRUE when the callback returns early
NotListening(in_channel, message) ==
    in_channel > 0 /\ LowNibble(message[1]) # in_channel - 1

\* the condition of "Adjust MIDI channel"
AdjustChannel(in_channel, out_channel) ==
    out_channel < 16 /\ out_channel # in_channel

\* message[0] & 0xF0 | out_channel - 1, out_channel - 1 in u8
AdjustedStatus(status, out_channel) ==
    BitOr(HighNibble(status), WrapSubU8(out_channel, 1))

\* out_channel - 1 overflows u8
SubOverflows(in_channel, out_channel) ==
    AdjustChannel(in_channel, out_channel) /\ out_channel = 0

\* the forward branch: the new message_out
ForwardBuffer(config, mo, message) ==
    <<IF AdjustChannel(config.in_channel, config.out_channel)
      THEN AdjustedStatus(message[1], config.out_channel)
      ELSE message[1],
      message[2],
      IF Len(message) = 3 THEN message[3] ELSE mo[3]>>

Quiet(mo) ==
    [message_out |-> mo, sent |-> <<>>, stdout |-> <<>>, written |-> <<>>,
     panicked |-> FALSE]

ForwardError == [port |-> 0, kind |-> "Error when forwarding message ...",
                 channel |-> 0, a |-> 0, b |-> 0]

\* The whole closure. env = [send_ok, write_ok, overflow_checks].
Callback(config, monitor, record, mo, message, env) ==
    IF Len(message) < 2 THEN Quiet(mo)
    ELSE IF NotListening(config.in_channel, message) THEN Quiet(mo)
    ELSE
    LET fwd == do_forward(config)
        fwdPanic == fwd /\ SubOverflows(config.in_channel, config.out_channel)
                        /\ env.overflow_checks
        mo1 == IF fwd /\ ~fwdPanic THEN ForwardBuffer(config, mo, message) ELSE mo
        sent == IF fwd /\ ~fwdPanic /\ env.send_ok THEN <<mo1>> ELSE <<>>
        out1 == IF fwd /\ ~fwdPanic /\ ~env.send_ok THEN <<ForwardError>> ELSE <<>>
        doMon == monitor /\ ~fwdPanic
        shown == IF doMon THEN show_message(config.in_port, message)
                 ELSE [stdout |-> <<>>, panicked |-> FALSE]
        doRec == record /\ ~fwdPanic /\ ~shown.panicked
        recPanic == doRec /\ ~env.write_ok
    IN  [message_out |-> mo1,
         sent |-> sent,
         stdout |-> out1 \o shown.stdout,
         written |-> IF doRec /\ env.write_ok THEN FormatLine(message) ELSE <<>>,
         panicked |-> fwdPanic \/ shown.panicked \/ recPanic]

(***************************************************************************)
(* midi.rs: MidiMessage::parse. A missing data byte counts as 0; "panic"   *)
(* stands for the panic!() of the two catch-all arms.                      *)
(***************************************************************************)
Msg(kind, channel, a, b) == [kind |-> kind, channel |-> channel, a |-> a, b |-> b]

parse(message) ==
    LET channel == LowNibble(message[1])
        param == IF Len(message) > 1 THEN message[2] ELSE 0
        value == IF Len(message) > 2 THEN message[3] ELSE 0
        hi == HighNibble(message[1])
        st == message[1]
    IN  CASE hi = 144 -> Msg("NoteOn", channel, param, value)
          [] hi = 128 -> Msg("NoteOff", channel, param, value)
          [] hi = 160 -> Msg("KeyAT", channel, param, value)
          [] hi = 176 -> Msg("ControlChg", channel, param, value)
          [] hi = 192 -> Msg("ProgramChg", channel, param, 0)
          [] hi = 208 -> Msg("ChannelAT", channel, param, 0)
          [] hi = 224 -> Msg("Pitchbend", channel, PitchOf(param, value), 0)
          [] hi = 240 ->
               CASE st = 242 -> Msg("SongPos", 0, BitOr(param, value * 128), 0)
                 [] st = 248 -> Msg("TimingClock", 0, 0, 0)
                 [] st = 250 -> Msg("Start", 0, 0, 0)
                 [] st = 251 -> Msg("Continue", 0, 0, 0)
                 [] st = 252 -> Msg("Stop", 0, 0, 0)
                 [] st = 254 -> Msg("ActiveSensing", 0, 0, 0)
                 [] st = 255 -> Msg("Reset", 0, 0, 0)
                 [] OTHER -> Msg("panic", 0, 0, 0)
          [] OTHER -> Msg("panic", 0, 0, 0)

(***************************************************************************)
(* avg.rs: Avg. Samples are in 1/1000 BPM; position counts from 0.         *)
(***************************************************************************)
\* Avg::new(size)
AvgNew(size) ==
    [values |-> [i \in 1..size |-> 0], size |-> size, position |-> 0,
     num_values |-> 0, sum |-> 0]

\* add_value without the subtraction of the value it overwrites
add_value_keeps_evicted(avg, value) ==
    LET sum2 == avg.sum + value
        pos1 == avg.position + 1
        pos2 == IF pos1 >= avg.size THEN 0 ELSE pos1
        n2 == IF avg.num_values < avg.size THEN avg.num_values + 1 ELSE avg.num_values
    IN  [avg |-> [values |-> [avg.values EXCEPT ![avg.position + 1] = value],
                  size |-> avg.size, position |-> pos2, num_values |-> n2,
                  sum |-> sum2],
         result |-> [num |-> sum2, den |-> n2]]

\* Avg::add_value: the new Avg and the returned average sum / num_values,
\* kept as the exact quotient num / den.
add_value(avg, value) ==
    LET sum1 == IF avg.num_values = avg.size
                THEN avg.sum - avg.values[avg.position + 1]
                ELSE avg.sum
        sum2 == sum1 + value
        pos1 == avg.position + 1
        pos2 == IF pos1 >= avg.size THEN 0 ELSE pos1
        n2 == IF avg.num_values < avg.size THEN avg.num_values + 1 ELSE avg.num_values
    IN  [avg |-> [values |-> [avg.values EXCEPT ![avg.position + 1] = value],
                  size |-> avg.size, position |-> pos2, num_values |-> n2,
                  sum |-> sum2],
         result |-> [num |-> sum2, den |-> n2]]

(***************************************************************************)
(* display.rs: Display.                                                    *)
(***************************************************************************)
\* Avg::new(48) of Display::new
WindowSize == 48

\* 60000000.0 / diff, in 1/1000 BPM (long division keeps within 32 bits)
MilliBpm(diff) ==
    (60000000 \div diff) * 1000 + ((60000000 % diff) * 1000) \div diff

\* (bpm * 10.0).round() / 10.0 of the quotient q, in 1/10 BPM
RoundTenths(q) == (2 * q.num + 100 * q.den) \div (200 * q.den)

\* Display::new(colors, show_time)
DisplayNew(st) ==
    [show_time |-> st, bpm |-> 0, last_clock |-> 0, avg |-> AvgNew(WindowSize)]

BpmLine(timestamp, bpm) ==
    [tag |-> "BPM", timestamp |-> timestamp, port |-> 0, channel |-> 0,
     kind |-> "BPM", a |-> bpm, b |-> 0]

\* calc_bpm without the update of self.bpm after a report
calc_bpm_keeps_old_bpm(d, timestamp) ==
    IF d.last_clock # 0
    THEN LET diff == (timestamp - d.last_clock) * 24
             r == add_value(d.avg, MilliBpm(diff))
             bpm == RoundTenths(r.result)
         IN  [display |-> [d EXCEPT !.avg = r.avg, !.last_clock = timestamp],
              lines |-> IF bpm # d.bpm THEN <<BpmLine(timestamp, bpm)>> ELSE <<>>]
    ELSE [display |-> [d EXCEPT !.last_clock = timestamp], lines |-> <<>>]

\* calc_bpm: the new Display and the lines printed. add_value returns a
\* plain average, which takes the Some arm of the match.
calc_bpm(d, timestamp) ==
    IF d.last_clock # 0
    THEN LET diff == (timestamp - d.last_clock) * 24
             r == add_value(d.avg, MilliBpm(diff))
             bpm == RoundTenths(r.result)
         IN  IF bpm # d.bpm
             THEN [display |-> [d EXCEPT !.avg = r.avg, !.bpm = bpm,
                                         !.last_clock = timestamp],
                   lines |-> <<BpmLine(timestamp, bpm)>>]
             ELSE [display |-> [d EXCEPT !.avg = r.avg, !.last_clock = timestamp],
                   lines |-> <<>>]
    ELSE [display |-> [d EXCEPT !.last_clock = timestamp], lines |-> <<>>]

ChannelVoiceKinds ==
    {"NoteOn", "NoteOff", "KeyAT", "ControlChg", "ProgramChg", "ChannelAT", "Pitchbend"}

\* print_tpc / print_tp, the fields of the event and print_footer
EventLine(timestamp, in_port, channel, m) ==
    [tag |-> "event", timestamp |-> timestamp, port |-> in_port, channel |-> channel,
     kind |-> m.kind, a |-> m.a, b |-> m.b]

\* show_message without the show_time test of the system events
show_message_ungated(d, timestamp, in_port, message) ==
    LET m == parse(message)
    IN  IF m.kind = "panic"
        THEN [display |-> d, lines |-> <<>>, panicked |-> TRUE]
        ELSE IF m.kind \in ChannelVoiceKinds
        THEN [display |-> d,
              lines |-> <<EventLine(timestamp, in_port, m.channel + 1, m)>>,
              panicked |-> FALSE]
        ELSE IF m.kind = "TimingClock"
        THEN IF ~d.show_time
             THEN [display |-> d, lines |-> <<>>, panicked |-> FALSE]
             ELSE LET c == calc_bpm(d, timestamp)
                  IN  [display |-> c.display, lines |-> c.lines, panicked |-> FALSE]
        ELSE [display |-> d, lines |-> <<EventLine(timestamp, in_port, 0, m)>>,
              panicked |-> FALSE]

\* Display::show_message: the new Display, the lines printed, and whether
\* parse panicked.
Display_show_message(d, timestamp, in_port, message) ==
    LET m == parse(message)
    IN  IF m.kind = "panic"
        THEN [display |-> d, lines |-> <<>>, panicked |-> TRUE]
        ELSE IF m.kind \in ChannelVoiceKinds
        THEN [display |-> d,
              lines |-> <<EventLine(timestamp, in_port, m.channel + 1, m)>>,
              panicked |-> FALSE]
        ELSE IF m.kind = "TimingClock"
        THEN IF ~d.show_time
             THEN [display |-> d, lines |-> <<>>, panicked |-> FALSE]
             ELSE LET c == calc_bpm(d, timestamp)
                  IN  [display |-> c.display, lines |-> c.lines, panicked |-> FALSE]
        ELSE IF ~d.show_time
        THEN [display |-> d, lines |-> <<>>, panicked |-> FALSE]
        ELSE [display |-> d, lines |-> <<EventLine(timestamp, in_port, 0, m)>>,
              panicked |-> FALSE]

(***************************************************************************)
(* State of the program running its routes.                                *)
(***************************************************************************)
VARIABLES
    configs,       \* route -> Config
    do_monitor,    \* -m
    do_record,     \* -w
    message_out,   \* route -> the [u8; 3] captured by the route's closure
    file_pos,      \* route -> offset of the route's File handle
    files,         \* in_port -> content of the file "<outfile>_p<in_port>"
    route_state,   \* route -> "running" | "dead" (its callback panicked)
    process,       \* "running" | "aborted"
    ev,            \* what the last callback received and emitted
    nmsgs          \* callbacks delivered so far

routeVars == <<configs, do_monitor, do_record, message_out, file_pos, files,
               route_state, process, ev, nmsgs>>

VARIABLES
    display,        \* the Display: show_time, bpm, last_clock, avg
    display_state,  \* "running" | "panicked"
    now,            \* timestamp (usec) of the latest message
    spacing,        \* usec between the latest two pulses, 0 before
    switched,       \* the pulse spacing has changed once
    pulses,         \* TimingClock messages shown so far
    reports,        \* the BPM lines printed so far, with the pulse of each
    shown           \* the latest call of show_message and what it printed

displayVars == <<display, display_state, now, spacing, switched, pulses, reports, shown>>

VARIABLES
    decoded         \* the latest message given to parse and what it returned

parseVars == <<decoded>>

VARIABLES
    ring,           \* an Avg
    added           \* the values given to its add_value, oldest first

avgVars == <<ring, added>>

NoEvent == [route |-> 0, message |-> <<>>, sent |-> <<>>, stdout |-> <<>>,
            written |-> <<>>, panicked |-> FALSE]

InPorts == {0}

RouteInit ==
    /\ configs \in {c \in [Routes -> FirstRouteConfigs \cup SecondRouteConfigs] :
                       c[1] \in FirstRouteConfigs /\ c[2] \in SecondRouteConfigs}
    /\ do_monitor \in BOOLEAN
    /\ do_record \in BOOLEAN
    /\ message_out = [r \in Routes |-> <<0, 0, 0>>]
    /\ file_pos = [r \in Routes |-> 0]
    /\ files = [p \in InPorts |-> <<>>]
    /\ route_state = [r \in Routes |-> "running"]
    /\ process = "running"
    /\ ev = NoEvent
    /\ nmsgs = 0

\* A panic in the callback ends the callback's thread, or the process when
\* the callback is entered from foreign code or the build aborts on panic.
Deliver(r, message, env, abort) ==
    /\ process = "running"
    /\ route_state[r] = "running"
    /\ nmsgs < MaxMsgs
    /\ LET res == Callback(configs[r], do_monitor, do_record, message_out[r], message, env)
           port == configs[r].in_port
       IN  /\ message_out' = [message_out EXCEPT ![r] = res.message_out]
           /\ files' = IF res.written = <<>> THEN files
                       ELSE [files EXCEPT ![port] = WriteAt(@, file_pos[r], res.written)]
           /\ file_pos' = [file_pos EXCEPT ![r] = @ + Len(res.written)]
           /\ route_state' = IF res.panicked
                             THEN IF abort THEN [q \in Routes |-> "dead"]
                                  ELSE [route_state EXCEPT ![r] = "dead"]
                             ELSE route_state
           /\ process' = IF res.panicked /\ abort THEN "aborted" ELSE process
           /\ ev' = [route |-> r, message |-> message, sent |-> res.sent,
                     stdout |-> res.stdout, written |-> res.written,
                     panicked |-> res.panicked]
    /\ nmsgs' = nmsgs + 1
    /\ UNCHANGED <<configs, do_monitor, do_record>>
    /\ UNCHANGED <<displayVars, parseVars, avgVars>>

\* The outcomes of the environment that the callback of this route can meet.
Envs(config, record) ==
    [send_ok : IF do_forward(config) THEN BOOLEAN ELSE {TRUE},
     write_ok : IF record THEN BOOLEAN ELSE {TRUE},
     overflow_checks : IF do_forward(config)
                          /\ SubOverflows(config.in_channel, config.out_channel)
                       THEN BOOLEAN ELSE {FALSE}]

\* abort is a choice only where the callback panics
PanicOutcomes(r, message, env) ==
    IF Callback(configs[r], do_monitor, do_record, message_out[r], message, env).panicked
    THEN BOOLEAN ELSE {FALSE}

RouteCallback ==
    \E r \in Routes, message \in RouteMessages :
        \E env \in Envs(configs[r], do_record) :
            \E abort \in PanicOutcomes(r, message, env) :
                Deliver(r, message, env, abort)

(***************************************************************************)
(* One Display and the stream of messages it is shown.                     *)
(***************************************************************************)
\* usec between pulses: 120.0 BPM and 120.2 BPM
Spacings == {20833, 20800}
\* timestamp of the first message
StartTimes == {0, 1000}

\* status bytes 0x80..0xE0, 0xF2, 0xFA..0xFF with their data bytes; short
\* messages; and the undecodable 0xF1 and 0x40
OtherMessages ==
    {<<128, 64, 5>>, <<144, 64, 5>>, <<160, 64, 5>>, <<176, 64, 5>>, <<192, 5>>,
     <<208, 5>>, <<224, 5, 64>>, <<242, 5, 64>>, <<250>>, <<251>>, <<252>>,
     <<254>>, <<255>>, <<144>>, <<224, 5>>, <<241, 5>>, <<64, 5>>}

NothingShown == [message |-> <<>>, timestamp |-> 0, lines |-> <<>>]

DisplayInit ==
    /\ display \in {DisplayNew(st) : st \in BOOLEAN}
    /\ display_state = "running"
    /\ now \in StartTimes
    /\ spacing = 0
    /\ switched = FALSE
    /\ pulses = 0
    /\ reports = <<>>
    /\ shown = NothingShown

Show(timestamp, message) ==
    LET res == Display_show_message(display, timestamp, 0, message)
    IN  /\ display' = res.display
        /\ display_state' = IF res.panicked THEN "panicked" ELSE display_state
        /\ shown' = [message |-> message, timestamp |-> timestamp, lines |-> res.lines]
        /\ reports' = IF res.lines # <<>> /\ res.lines[1].tag = "BPM"
                      THEN Append(reports,
                                  [pulse |-> pulses + 1,
                                   timestamp |-> res.lines[1].timestamp,
                                   bpm |-> res.lines[1].a,
                                   num_values |-> res.display.avg.num_values])
                      ELSE reports
        /\ now' = timestamp

\* the next TimingClock pulse, the spacing changing at most once
ShowClock ==
    /\ display_state = "running"
    /\ pulses < MaxPulses
    /\ \E d \in (IF pulses = 0 THEN {0}
                 ELSE IF spacing = 0 \/ ~switched THEN Spacings ELSE {spacing}) :
          /\ Show(now + d, <<248>>)
          /\ spacing' = d
          /\ switched' = (switched \/ (spacing # 0 /\ d # spacing))
    /\ pulses' = pulses + 1
    /\ UNCHANGED <<routeVars, parseVars, avgVars>>

\* any other message, between the first pulses of the stream
ShowOther ==
    /\ display_state = "running"
    /\ pulses <= MixedPulses
    /\ \E message \in OtherMessages : Show(now, message)
    /\ UNCHANGED <<spacing, switched, pulses>>
    /\ UNCHANGED <<routeVars, parseVars, avgVars>>

(***************************************************************************)
(* MidiMessage::parse applied to one message after another.                *)
(***************************************************************************)
\* every status byte parse recognises, on channels 1 and 16 for the
\* channel-voice kinds, and the unrecognised 0x40, 0xF0, 0xF1, 0xF9
ParseStatusBytes ==
    {128, 143, 144, 159, 160, 175, 176, 191, 192, 207, 208, 223, 224, 239,
     242, 248, 250, 251, 252, 254, 255, 64, 240, 241, 249}

\* data bytes: 7-bit ones, and 0xFF as a device out of protocol may send
ParseDataBytes == {0, 1, 64, 127, 255}

ParseMessages ==
    {<<s>> : s \in ParseStatusBytes}
    \cup {<<s, a>> : s \in ParseStatusBytes, a \in ParseDataBytes}
    \cup {<<s, a, b>> : s \in ParseStatusBytes, a \in ParseDataBytes, b \in ParseDataBytes}

NotDecoded == [message |-> <<>>, result |-> Msg("none", 0, 0, 0)]

ParseInit == decoded = NotDecoded

ParseMessage ==
    /\ \E message \in ParseMessages :
          decoded' = [message |-> message, result |-> parse(message)]
    /\ UNCHANGED <<routeVars, displayVars, avgVars>>

(***************************************************************************)
(* One Avg and the values it is given.                                     *)
(***************************************************************************)
\* capacities and values (1/1000 BPM) of the Avg examined
AvgSizes == {1, 2, 3}
AvgValues == {1, 20, 300}

AvgInit ==
    /\ ring \in {AvgNew(size) : size \in AvgSizes}
    /\ added = <<>>

AddValue ==
    /\ Len(added) < MaxAdds
    /\ \E value \in AvgValues :
          /\ ring' = add_value(ring, value).avg
          /\ added' = Append(added, value)
    /\ UNCHANGED <<routeVars, displayVars, parseVars>>

\* no parse and no Avg of their own while the routes or a Display run
ParseIdle == decoded = NotDecoded
AvgIdle == ring = AvgNew(1) /\ added = <<>>

vars == <<routeVars, displayVars, parseVars, avgVars>>

\* the routes at rest while a Display is examined
RoutesIdle ==
    /\ configs = [r \in Routes |-> Config(0, 0, NoPort, 0)]
    /\ do_monitor = FALSE
    /\ do_record = FALSE
    /\ message_out = [r \in Routes |-> <<0, 0, 0>>]
    /\ file_pos = [r \in Routes |-> 0]
    /\ files = [p \in InPorts |-> <<>>]
    /\ route_state = [r \in Routes |-> "running"]
    /\ process = "running"
    /\ ev = NoEvent
    /\ nmsgs = 0

\* main.rs builds no Display: none is shown anything while the routes run
DisplayIdle ==
    /\ display = DisplayNew(FALSE)
    /\ display_state = "running"
    /\ now = 0
    /\ spacing = 0
    /\ switched = FALSE
    /\ pulses = 0
    /\ reports = <<>>
    /\ shown = NothingShown

Init == RouteInit /\ DisplayIdle /\ ParseIdle /\ AvgIdle
Next == RouteCallback
Spec == Init /\ [][Next]_vars

DisplaySpecInit == DisplayInit /\ RoutesIdle /\ ParseIdle /\ AvgIdle
DisplaySpecNext == ShowClock \/ ShowOther
DisplaySpec == DisplaySpecInit /\ [][DisplaySpecNext]_vars

ParseSpecInit == ParseInit /\ RoutesIdle /\ DisplayIdle /\ AvgIdle
ParseSpecNext == ParseMessage
ParseSpec == ParseSpecInit /\ [][ParseSpecNext]_vars

AvgSpecInit == AvgInit /\ RoutesIdle /\ DisplayIdle /\ ParseIdle
AvgSpecNext == AddValue
AvgSpec == AvgSpecInit /\ [][AvgSpecNext]_vars
(***************************************************************************)
(* Properties of the routes (checked under Spec).                          *)
(***************************************************************************)
Delivered == ev.route \in Routes
Forwarded == Delivered /\ ev.sent # <<>>

\* the status byte that the remap rule gives
RemappedStatus(config, status) ==
    IF config.out_channel # 0 /\ config.out_channel # config.in_channel
    THEN BitOr(HighNibble(status), config.out_channel - 1)
    ELSE status

\* C1: every forwarded message carries the status byte
\* (status & 0xF0) | (out_channel - 1) when the output channel is 1..16 and
\* differs from the input channel, and the received status byte otherwise.
C1_RemappedStatusByte ==
    Forwarded => ev.sent[1][1] = RemappedStatus(configs[ev.route], ev.message[1])

\* C2: every forwarded message has the length of the received message and
\* its data bytes, and nothing of an earlier message.
C2_ForwardedLengthAndData ==
    Forwarded =>
        /\ Len(ev.sent[1]) = Len(ev.message)
        /\ \A i \in 2..Len(ev.message) : ev.sent[1][i] = ev.message[i]

\* C3: no message ends the process or a route: whatever fails (decoding,
\* send, log write), every route goes on to its next message.
C3_NoErrorEndsRouteOrProcess ==
    process = "running" /\ \A r \in Routes : route_state[r] = "running"

\* the callback left a trace of the message: bytes sent, text printed, a
\* log line written, or a panic
Processed(e) ==
    e.sent # <<>> \/ e.stdout # <<>> \/ e.written # <<>> \/ e.panicked

FilterRejects(config, message) ==
    config.in_channel # 0 /\ LowNibble(message[1]) # config.in_channel - 1

\* C4: a route with input channel k in 1..16 rejects every message whose
\* low status nibble is not k - 1, and a rejected message changes nothing:
\* nothing sent, printed or logged, no buffer, file or route changed. Every
\* other message of two or three bytes (any channel on an omni route) is
\* processed by the branches that are switched on.
C4_ChannelFilter ==
    [][nmsgs' = nmsgs + 1 =>
        LET r == ev'.route
            m == ev'.message
        IN  IF FilterRejects(configs[r], m)
            THEN /\ ~Processed(ev')
                 /\ UNCHANGED <<message_out, file_pos, files, route_state, process>>
            ELSE (Len(m) >= 2 /\ (do_forward(configs[r]) \/ do_monitor \/ do_record))
                 => Processed(ev')]_routeVars

\* C4 witness: after a message that changed the buffer of a route listening
\* on channel 2, a NoteOn on channel 1 was delivered to it (and dropped),
\* and an omni route has forwarded a message.
C4_Witness ==
    /\ nmsgs = 2
    /\ ev.route = 1
    /\ configs[1].in_channel = 2
    /\ ev.message = <<144, 64, 5>>
    /\ message_out[1] # <<0, 0, 0>>

IsNoteOn(message) == HighNibble(message[1]) = 144

\* C5: a NoteOn whose key is <= 10 is never sent to the output.
C5_LowKeyNoteOnNotForwarded ==
    (Delivered /\ IsNoteOn(ev.message) /\ Len(ev.message) >= 2 /\ ev.message[2] <= 10)
        => ev.sent = <<>>

\* the log of a route: the file its File handle writes
LogOf(r) == files[configs[r].in_port]

\* C6: a callback of one route changes nothing of any other route: its
\* buffer, its log, and whether it goes on running.
C6_RouteIsolation ==
    [][nmsgs' = nmsgs + 1 =>
        \A q \in Routes \ {ev'.route} :
            /\ message_out'[q] = message_out[q]
            /\ file_pos'[q] = file_pos[q]
            /\ LogOf(q)' = LogOf(q)
            /\ route_state'[q] = route_state[q]]_routeVars

(***************************************************************************)
(* Properties of Display and Avg (checked under DisplaySpec).              *)
(***************************************************************************)
\* C7: no tempo is reported while the ring buffer holds fewer than 48
\* samples: every report is made on a full window.
C7_NoReportBeforeWindowFull ==
    \A i \in 1..Len(reports) : reports[i].num_values = WindowSize

\* C8: 48 pulses 20833 usec apart shown to a fresh Display with show_time
\* give exactly one report, 120.0 BPM, made at the 48th pulse and not before.
C8_FortyEightPulsesOneReport ==
    (display.show_time /\ ~switched /\ spacing \in {0, 20833} /\ pulses <= 48)
        => IF pulses < 48
           THEN reports = <<>>
           ELSE /\ Len(reports) = 1
                /\ reports[1].bpm = 1200
                /\ reports[1].pulse = 48

PrintedBpm(lines) == lines # <<>> /\ lines[1].tag = "BPM"

NoRepeatedReport ==
    \A i \in 1..(Len(reports) - 1) : reports[i].bpm # reports[i + 1].bpm

\* C9: on a pulse with the window full, a tempo is reported if and only if
\* the average of the 48 samples rounded to one decimal differs from the
\* last reported value, which is updated exactly when a report is made; no
\* two consecutive reports carry the same value.
C9_ChangeGatedReports ==
    [][(pulses' = pulses + 1 /\ display.show_time
          /\ display'.avg.num_values = WindowSize)
        => LET rounded == RoundTenths([num |-> display'.avg.sum, den |-> WindowSize])
               reported == PrintedBpm(shown'.lines)
           IN  /\ reported <=> rounded # display.bpm
               /\ reported => shown'.lines[1].a = rounded
               /\ display'.bpm = IF reported THEN rounded ELSE display.bpm
               /\ NoRepeatedReport']_vars

\* C9 witness: on a full window a pulse has reported a changed tempo, after
\* full-window pulses that reported nothing.
C9_Witness ==
    /\ display.avg.num_values = WindowSize
    /\ display.avg.position > 2
    /\ pulses > WindowSize + 3
    /\ PrintedBpm(shown.lines)
    /\ reports[Len(reports)].pulse = pulses
    /\ Len(reports) >= 2
    /\ reports[Len(reports) - 1].pulse < pulses - 1

VoiceStatus(status) == HighNibble(status) \in {128, 144, 160, 176, 192, 208, 224}
TimedStatus(status) == status \in {242, 250, 251, 252, 254, 255}

\* C10: a TimingClock message prints no event line; with show_time off
\* SongPosition, Start, Continue, Stop, ActiveSensing, Reset and
\* TimingClock print nothing, and no tempo line is printed; every
\* channel-voice event prints exactly one event line, show_time on or off.
C10_DisplayGating ==
    shown.message # <<>> =>
        LET status == shown.message[1]
            lines == shown.lines
        IN  /\ status = 248 => \A i \in 1..Len(lines) : lines[i].tag # "event"
            /\ (~display.show_time /\ (TimedStatus(status) \/ status = 248))
                   => lines = <<>>
            /\ ~display.show_time => ~PrintedBpm(lines)
            /\ VoiceStatus(status)
                   => Len(lines) = 1 /\ lines[1].tag = "event"

\* C10 witness: a Start message was shown to a Display with show_time off,
\* after a TimingClock pulse.
C10_Witness ==
    /\ ~display.show_time
    /\ shown.message = <<250>>
    /\ pulses >= 1

(***************************************************************************)
(* Properties of MidiMessage::parse (checked under ParseSpec).             *)
(***************************************************************************)
\* the reference table: kind by high nibble, or by the whole byte for 0xF_
RefKind(status) ==
    CASE HighNibble(status) = 128 -> "NoteOff"
      [] HighNibble(status) = 144 -> "NoteOn"
      [] HighNibble(status) = 160 -> "KeyAT"
      [] HighNibble(status) = 176 -> "ControlChg"
      [] HighNibble(status) = 192 -> "ProgramChg"
      [] HighNibble(status) = 208 -> "ChannelAT"
      [] HighNibble(status) = 224 -> "Pitchbend"
      [] status = 242 -> "SongPos"
      [] status = 248 -> "TimingClock"
      [] status = 250 -> "Start"
      [] status = 251 -> "Continue"
      [] status = 252 -> "Stop"
      [] status = 254 -> "ActiveSensing"
      [] status = 255 -> "Reset"
      [] OTHER -> "unrecognised"

\* data byte i of a message, a missing one counting as 0
DataByte(message, i) == IF Len(message) > i THEN message[i + 1] ELSE 0

\* C11: for every message of 1 to 3 bytes with a recognised status byte,
\* parse gives the kind of the reference table, channel = status & 0x0F for
\* the channel-voice kinds, the data bytes as fields (a missing one is 0),
\* Pitchbend pitch = (data1 | (data2 << 7)) - 8192, which for 7-bit data
\* bytes lies within -8192..8191 and gives back both data bytes (distinct
\* pairs give distinct pitches), and SongPosition = data1 | (data2 << 7).
C11_ParseAgreesWithTable ==
    (decoded.message # <<>> /\ RefKind(decoded.message[1]) # "unrecognised") =>
        LET m == decoded.message
            r == decoded.result
            kind == RefKind(m[1])
            d1 == DataByte(m, 1)
            d2 == DataByte(m, 2)
        IN  /\ r.kind = kind
            /\ kind \in ChannelVoiceKinds => r.channel = m[1] % 16
            /\ kind \in {"NoteOff", "NoteOn", "KeyAT", "ControlChg"}
                   => r.a = d1 /\ r.b = d2
            /\ kind \in {"ProgramChg", "ChannelAT"} => r.a = d1
            /\ kind = "Pitchbend"
                   => /\ r.a = BitOr(d1, d2 * 128) - 8192
                      /\ (d1 < 128 /\ d2 < 128)
                             => /\ r.a = d1 + 128 * d2 - 8192
                                /\ r.a \in -8192..8191
                                /\ (r.a + 8192) % 128 = d1
                                /\ (r.a + 8192) \div 128 = d2
            /\ kind = "SongPos" => r.a = BitOr(d1, d2 * 128)

\* C11 witness: a Pitchbend of three bytes at the top of the range, on
\* channel 16, has been parsed.
C11_Witness ==
    /\ decoded.message = <<239, 127, 127>>
    /\ decoded.result.kind = "Pitchbend"
    /\ decoded.result.a = 8191

(***************************************************************************)
(* The pulses of a stream and the samples pushed (under DisplaySpec).      *)
(***************************************************************************)
\* C12: on a Display with show_time, after n >= 1 pulses with non-decreasing
\* timestamps, 0 included, last_clock is the timestamp of the latest pulse
\* and exactly n - 1 samples have been pushed, one by each pulse after the
\* first, the latest being 60000000 / (delta * 24) of the latest delta.
C12_OneSamplePerLaterPulse ==
    (display.show_time /\ pulses >= 1) =>
        /\ display.last_clock = now
        /\ display.avg.num_values = (IF pulses - 1 < WindowSize THEN pulses - 1 ELSE WindowSize)
        /\ display.avg.position = (pulses - 1) % WindowSize
        /\ pulses >= 2 =>
               display.avg.values[((pulses - 2) % WindowSize) + 1] = MilliBpm(spacing * 24)

(***************************************************************************)
(* The ring buffer of Avg (checked under AvgSpec).                         *)
(***************************************************************************)
RECURSIVE SumOf(_)
SumOf(seq) == IF seq = <<>> THEN 0 ELSE seq[1] + SumOf(Tail(seq))

\* the number of values an Avg of this capacity holds after n calls
HeldCount(n, capacity) == IF n < capacity THEN n ELSE capacity

\* the most recently added values, oldest first
MostRecent(n, capacity) ==
    SubSeq(added, n - HeldCount(n, capacity) + 1, n)

\* C13: after n add_value calls on an Avg of capacity C, position < C,
\* num_values = min(n, C), the buffer holds exactly the min(n, C) most
\* recently added values (the i-th value added is in slot (i - 1) mod C until
\* it is overwritten by the value added C calls later), and sum is the sum
\* of the values held.
C13_RingBufferInvariant ==
    LET n == Len(added)
        C == ring.size
    IN  /\ ring.position \in 0..(C - 1)
        /\ ring.num_values = HeldCount(n, C)
        /\ \A i \in (n - HeldCount(n, C) + 1)..n :
               ring.values[((i - 1) % C) + 1] = added[i]
        /\ \A slot \in 1..C : slot > HeldCount(n, C) => ring.values[slot] = 0
        /\ ring.sum = SumOf(MostRecent(n, C))

\* C13 witness: an Avg of capacity 3 has been given 7 values, not all the
\* same, so that every slot has been overwritten at least once.
C13_Witness ==
    /\ ring.size = 3
    /\ Len(added) = 7
    /\ added[1] # added[4]
    /\ added[5] # added[6]
    /\ ring.sum = added[5] + added[6] + added[7]

====
